---- MODULE Spec2Model ----
(***************************************************************************)
(* Model of tools/session-repair.py: the repair of a conversation store.   *)
(* The store is the three directory trees message/, part/ and session/,    *)
(* the backup sink is repair-backups/.  fix_session is modelled step by    *)
(* step (collect, backup, unlink messages, unlink parts, rmdir, metadata   *)
(* rewrite, return); every file operation that can raise is a choice       *)
(* between its success and its failure.                                    *)
(***************************************************************************)
EXTENDS Integers, Sequences, FiniteSets, TLC

\* ------------------------------------------------------------- bounds
MaxMsgs == 2      \* message files of conversation "s1" (ids 1..MaxMsgs)
MaxParts == 1     \* part files per message
MaxIdx == 3       \* largest message-slot index N of "messages.N.content.M"
MaxRuns == 2      \* invocations of fix_session in one behaviour
MaxFail == 1      \* injected file-operation failures in one behaviour

\* ------------------------------------------------------------- universe
Sessions == {"s1", "s2"}
Projects == <<"p1", "p2">>        \* SESSION_PATH.iterdir(), in iteration order
ProjectSet == {Projects[j] : j \in 1..Len(Projects)}
OtherMsg == MaxMsgs + 1           \* the one message of conversation "s2"
MsgIds == 1..OtherMsg
SessionOf(m) == IF m <= MaxMsgs THEN "s1" ELSE "s2"

NoMsg == 0        \* Python None for a message / a missing "id" field
NoIdx == -1       \* Python None for error_msg_index
NoError == "None"
NothingToRepair == "Could not identify any messages to remove"

Markers == {"Invalid", "signature", "thinking"}
NoDoc == [exists |-> FALSE]

MsgPath(m) == [kind |-> "message", m |-> m, k |-> 0]
PartPath(m, k) == [kind |-> "part", m |-> m, k |-> k]
PartContent(m, k) == [owner |-> m, n |-> k]

VARIABLES
    msgs,               \* MESSAGE_PATH/<session>/msg_<m>.json : the parsed record
    parts,              \* PART_PATH/<m>/prt_*.json : the part files present
    partDir,            \* PART_PATH/<m> exists
    sessionPathExists,  \* SESSION_PATH exists
    docs,               \* SESSION_PATH/<project>/<session>.json
    backups,            \* BACKUP_PATH: one directory per backup_files call
    pc,                 \* position of the running fix_session
    sid, idx, dry,      \* its arguments
    result,             \* its result dict
    messages_to_remove, files_to_backup, all_parts,   \* its locals
    i,                  \* index of the loop it is in
    runs, failures,     \* invocations started, failures injected
    store0,             \* the store and the sink when the invocation started
    deleted, attempted, \* paths unlinked / paths whose unlink was called
    backupOk,           \* backup_files has returned in this invocation
    rewrite,            \* update_session_after_repair: "no" (not called), "done",
                        \* "write_failed" (a write raised), "raised" (it raised)
    prev,               \* the previous invocation: arguments, outcome, start store
    corrupted,          \* the list find_corrupted_messages returned last
    written,            \* the projects whose document this invocation wrote
    crashAt             \* where the running invocation was killed ("" if not)

world == <<msgs, parts, partDir, sessionPathExists, docs, backups>>
locals == <<sid, idx, dry, result, messages_to_remove, files_to_backup, all_parts, i>>
aux == <<runs, failures, store0, deleted, attempted, backupOk, rewrite, prev>>
extra == <<corrupted, written, crashAt>>
vars == <<world, pc, locals, aux, extra>>

Store == [msgs |-> msgs, parts |-> parts, partDir |-> partDir, docs |-> docs,
          sessionPathExists |-> sessionPathExists, backups |-> backups]

\* ------------------------------------------------------------- helpers
Range(s) == {s[j] : j \in 1..Len(s)}

\* ------------------------------------------------------------- store readers
\* the ErrorSignature test of lines 82 and 223
HasSignature(rec) == Markers \subseteq rec.err

\* msg.get("id")
RecId(m) == IF msgs[m].hasId THEN m ELSE NoMsg

\* session_msg_dir.glob("msg_*.json"): the files present, in directory order
Glob(s) == SelectSeq([j \in 1..OtherMsg |-> j],
                     LAMBDA m : msgs[m].present /\ SessionOf(m) = s)

\* list.sort(key=created): a stable insertion sort
RECURSIVE InsertByCreated(_, _)
InsertByCreated(m, sorted) ==
    IF sorted = <<>> THEN <<m>>
    ELSE IF msgs[Head(sorted)].created <= msgs[m].created
         THEN <<Head(sorted)>> \o InsertByCreated(m, Tail(sorted))
         ELSE <<m>> \o sorted

RECURSIVE SortByCreated(_)
SortByCreated(s) ==
    IF s = <<>> THEN <<>>
    ELSE InsertByCreated(s[Len(s)], SortByCreated(SubSeq(s, 1, Len(s) - 1)))

get_session_messages(s) ==
    SortByCreated(SelectSeq(Glob(s), LAMBDA m : msgs[m].readable))

\* mutant: the content position is halved without the shift by one
find_message_to_remove_halved(s, n) ==
    LET messages == get_session_messages(s)
        assistant_messages == SelectSeq(messages, LAMBDA m : msgs[m].role = "assistant")
        assistant_index == n \div 2
    IN  IF messages = <<>> THEN NoMsg
        ELSE IF n # NoIdx /\ n > 0 /\ assistant_index < Len(assistant_messages)
             THEN assistant_messages[assistant_index + 1]
        ELSE IF assistant_messages # <<>> THEN assistant_messages[1]
        ELSE NoMsg

\* lines 139-176
find_message_to_remove(s, n) ==
    LET messages == get_session_messages(s)
        assistant_messages == SelectSeq(messages, LAMBDA m : msgs[m].role = "assistant")
        assistant_index == (n - 1) \div 2
    IN  IF messages = <<>> THEN NoMsg
        ELSE IF n # NoIdx /\ n > 0 /\ assistant_index < Len(assistant_messages)
             THEN assistant_messages[assistant_index + 1]
        ELSE IF assistant_messages # <<>> THEN assistant_messages[1]
        ELSE NoMsg

\* mutant: the error records of every conversation (the session directory is
\* not used)
find_error_messages_anywhere(s) ==
    SelectSeq([j \in 1..OtherMsg |-> j],
              LAMBDA m : msgs[m].present /\ msgs[m].readable /\ HasSignature(msgs[m]))

find_error_messages(s) ==
    SelectSeq(Glob(s), LAMBDA m : msgs[m].readable /\ HasSignature(msgs[m]))

get_message_parts(m) ==
    IF ~partDir[m] THEN <<>>
    ELSE SelectSeq([k \in 1..MaxParts |-> PartPath(m, k)],
                   LAMBDA p : p.k \in parts[m])

\* lines 320-329: the primary first, then the error records not yet listed by id
RECURSIVE AddErrors(_, _)
AddErrors(acc, errs) ==
    IF errs = <<>> THEN acc
    ELSE IF RecId(Head(errs)) \notin {RecId(acc[j]) : j \in 1..Len(acc)}
         THEN AddErrors(Append(acc, Head(errs)), Tail(errs))
         ELSE AddErrors(acc, Tail(errs))

CollectMessages(primary, errs) ==
    AddErrors(IF primary # NoMsg THEN <<primary>> ELSE <<>>, errs)

\* lines 335-346: only a message with an id and a file path is reported,
\* backed up and has its parts collected
Reported(mtr) == SelectSeq(mtr, LAMBDA m : RecId(m) # NoMsg)

RECURSIVE CollectParts(_)
CollectParts(ms) ==
    IF ms = <<>> THEN <<>>
    ELSE get_message_parts(Head(ms)) \o CollectParts(Tail(ms))

RECURSIVE CollectFiles(_)
CollectFiles(ms) ==
    IF ms = <<>> THEN <<>>
    ELSE <<MsgPath(Head(ms))>> \o get_message_parts(Head(ms)) \o CollectFiles(Tail(ms))

\* file_path.exists() and the file's content
Exists(p) == IF p.kind = "message" THEN msgs[p.m].present ELSE p.k \in parts[p.m]
Content(p) == IF p.kind = "message" THEN msgs[p.m] ELSE PartContent(p.m, p.k)

EmptyResult == [success |-> FALSE, messages_removed |-> <<>>, parts_removed |-> 0,
                backup_path |-> 0, error |-> NoError]


\* ------------------------------------------------------------- metadata
\* one entry of conversation.history: a dict with a messageId ("msg"), a dict
\* without one ("nomid"), or a value that is no dict ("nodict")
HistoryRef(e) == IF e.kind = "msg" THEN e.mid ELSE NoMsg

\* mutant: only a dict with a messageId that is not removed is kept
KeepEntryKeyedOnly(e, removed) ==
    e.kind = "msg" /\ e.mid \notin removed

\* lines 266-271: the filter of conversation.history
KeepEntry(e, removed) ==
    IF e.kind = "nodict" THEN TRUE ELSE HistoryRef(e) \notin removed

\* mutant: the history log is not filtered
PatchedDocKeepingHistory(doc, removed) ==
    [doc EXCEPT
        !.order = IF doc.hasOrder
                  THEN SelectSeq(doc.order, LAMBDA m : m \notin removed)
                  ELSE doc.order,
        !.messages = IF doc.hasMessages THEN doc.messages \ removed ELSE doc.messages]

\* lines 249-277: the three filters applied to one loaded document
PatchedDoc(doc, removed) ==
    [doc EXCEPT
        !.order = IF doc.hasOrder
                  THEN SelectSeq(doc.order, LAMBDA m : m \notin removed)
                  ELSE doc.order,
        !.messages = IF doc.hasMessages THEN doc.messages \ removed ELSE doc.messages,
        !.history = IF doc.hasConv
                    THEN SelectSeq(doc.history, LAMBDA e : KeepEntry(e, removed))
                    ELSE doc.history]

\* the flag `modified` of lines 247-277
DocModified(doc, removed) ==
    \/ doc.hasOrder
    \/ doc.hasMessages /\ doc.messages \cap removed # {}
    \/ doc.hasConv /\ Len(PatchedDoc(doc, removed).history) # Len(doc.history)

\* lines 238-286: the candidate directories are searched in order; the first
\* readable document that was modified is written and ends the search.  failAt
\* names the project whose write raises IOError ("" for none): the exception
\* is swallowed and the search goes on.
RECURSIVE update_session_after_repair(_, _, _, _, _)
update_session_after_repair(j, d, s, removed, failAt) ==
    IF j > Len(Projects) THEN d
    ELSE LET p == Projects[j]
             doc == d[p][s]
         IN  IF doc.exists /\ doc.readable /\ DocModified(doc, removed)
             THEN IF p = failAt
                  THEN update_session_after_repair(j + 1, d, s, removed, failAt)
                  ELSE [d EXCEPT ![p][s] = PatchedDoc(doc, removed)]
             ELSE update_session_after_repair(j + 1, d, s, removed, failAt)

\* lines 279-282: the project whose document the search writes, if any
WrittenProject(d, s, removed, failAt) ==
    LET tried == {j \in 1..Len(Projects) :
                    LET doc == d[Projects[j]][s]
                    IN  /\ Projects[j] # failAt
                        /\ doc.exists /\ doc.readable /\ DocModified(doc, removed)}
    IN  IF tried = {} THEN {}
        ELSE {Projects[CHOOSE j \in tried : \A k \in tried : j <= k]}

\* the projects whose document the search would try to write
WriteTargets(d, s, removed) ==
    {p \in ProjectSet : LET doc == d[p][s]
                        IN doc.exists /\ doc.readable /\ DocModified(doc, removed)}

\* ------------------------------------------------------------- the scanner
\* the outcome of get_session_title when SESSION_PATH does not exist: iterdir()
\* of line 39 is outside the try of lines 42-47
FileNotFoundError == "FileNotFoundError"

\* lines 39-49: the first candidate directory with a readable document
\* decides; a document that cannot be parsed is passed over
RECURSIVE TitleFrom(_, _)
TitleFrom(j, s) ==
    IF j > Len(Projects) THEN "Unknown"
    ELSE LET doc == docs[Projects[j]][s]
         IN  IF doc.exists /\ doc.readable
             THEN (IF doc.hasTitle THEN "Title" ELSE "Untitled")
             ELSE TitleFrom(j + 1, s)

get_session_title(s) ==
    IF sessionPathExists THEN TitleFrom(1, s) ELSE FileNotFoundError

\* lines 73-110: the file is reported when it parses, its error text holds the
\* three markers, and get_session_title returns; line 108 catches IOError, of
\* which FileNotFoundError is a subclass, and goes on with the next file
ScanMatch(m) ==
    /\ msgs[m].present /\ msgs[m].readable
    /\ HasSignature(msgs[m])
    /\ get_session_title(SessionOf(m)) # FileNotFoundError

\* lines 95-107 (message_id is the record's id, or the file stem without one)
CorruptionRecord(m) ==
    [message_id |-> m,
     session_id |-> SessionOf(m),
     session_title |-> get_session_title(SessionOf(m)),
     error_msg_index |-> msgs[m].pos,
     timestamp |-> msgs[m].created]

\* line 113: list.sort(key=timestamp, reverse=True), a stable sort
RECURSIVE InsertNewestFirst(_, _)
InsertNewestFirst(r, sorted) ==
    IF sorted = <<>> THEN <<r>>
    ELSE IF Head(sorted).timestamp >= r.timestamp
         THEN <<Head(sorted)>> \o InsertNewestFirst(r, Tail(sorted))
         ELSE <<r>> \o sorted

RECURSIVE SortNewestFirst(_)
SortNewestFirst(s) ==
    IF s = <<>> THEN <<>>
    ELSE InsertNewestFirst(s[Len(s)], SortNewestFirst(SubSeq(s, 1, Len(s) - 1)))

find_corrupted_messages ==
    LET found == SelectSeq([j \in 1..OtherMsg |-> j], ScanMatch)
    IN  SortNewestFirst([j \in 1..Len(found) |-> CorruptionRecord(found[j])])

\* ------------------------------------------------------------- initial stores
AbsentMsg == [present |-> FALSE, role |-> "user", err |-> {}, pos |-> NoIdx,
              hasId |-> TRUE, created |-> 0, readable |-> TRUE]

\* a file json.load cannot parse: no field of it is ever read
UnreadableMsg(t) == [present |-> TRUE, role |-> "user", err |-> {}, pos |-> NoIdx,
                     hasId |-> TRUE, created |-> t, readable |-> FALSE]

MsgRecords(t) ==
    {AbsentMsg, UnreadableMsg(t)} \cup
    [present : {TRUE}, role : {"user", "assistant"}, err : {{}, Markers},
     pos : {NoIdx}, hasId : BOOLEAN, created : {t}, readable : {TRUE}]

\* creation times either follow the directory order or reverse it
CreatedOrders == {[m \in MsgIds |-> m], [m \in MsgIds |-> OtherMsg + 1 - m]}

OtherRecord(t) == [present |-> TRUE, role |-> "assistant", err |-> Markers,
                   pos |-> NoIdx, hasId |-> TRUE, created |-> t, readable |-> TRUE]

\* a metadata document that references every message file of the conversation,
\* next to history entries that are not per-message
FullDoc(ms) ==
    [exists |-> TRUE, readable |-> TRUE, hasTitle |-> TRUE,
     hasOrder |-> TRUE, order |-> ms,
     hasMessages |-> TRUE, messages |-> Range(ms),
     hasConv |-> TRUE,
     history |-> <<[kind |-> "nodict", mid |-> NoMsg]>>
                 \o [j \in 1..Len(ms) |-> [kind |-> "msg", mid |-> ms[j]]]
                 \o <<[kind |-> "nomid", mid |-> NoMsg]>>]
\* a document with none of the three structures
BareDoc == [exists |-> TRUE, readable |-> TRUE, hasTitle |-> FALSE,
            hasOrder |-> FALSE, order |-> <<>>,
            hasMessages |-> FALSE, messages |-> {}, hasConv |-> FALSE, history |-> <<>>]
\* a document json.load cannot parse
UnreadableDoc == [BareDoc EXCEPT !.readable = FALSE]

\* where the document of conversation s1 lies and what it holds; "p1stale" is
\* a document that references no message file
DocPlacements == {"none", "p1", "p2", "p1bare", "p1unreadable", "p1stale", "nodir"}

InitDocs(place, ms1, ms2) ==
    [p \in ProjectSet |-> [s \in Sessions |->
        IF place = "nodir" THEN NoDoc
        ELSE IF s = "s2" THEN (IF p = "p1" THEN FullDoc(ms2) ELSE NoDoc)
        ELSE IF place = "p1" /\ p = "p1" THEN FullDoc(ms1)
        ELSE IF place = "p2" /\ p = "p2" THEN FullDoc(ms1)
        ELSE IF place = "p1bare" /\ p = "p1" THEN BareDoc
        ELSE IF place = "p1stale" /\ p = "p1" THEN FullDoc(<<>>)
        ELSE IF place = "p1unreadable_p2" /\ p = "p1" THEN UnreadableDoc
        ELSE IF place = "p1unreadable_p2" /\ p = "p2" THEN FullDoc(ms1)
        ELSE IF place = "p1unreadable" /\ p = "p1" THEN UnreadableDoc
        ELSE NoDoc]]

\* the stores of the scanner: error texts with any subset of the markers, with
\* or without a content position
ScanMsgRecords(t) ==
    {AbsentMsg, UnreadableMsg(t)} \cup
    [present : {TRUE}, role : {"assistant"}, err : SUBSET Markers,
     pos : {NoIdx, 1}, hasId : {TRUE}, created : {t}, readable : {TRUE}]

ScanPlacements == DocPlacements \cup {"p1unreadable_p2"}

Idxs == {NoIdx} \cup 0..MaxIdx
\* the conversation and the position a run is called with: no position, the
\* first one, and the largest one (positions in between select the same
\* message as one of these)
Targets == {<<"s1", n>> : n \in {NoIdx, 1, MaxIdx}} \cup {<<"s2", 1>>}

NoPrev == [valid |-> FALSE]

Init ==
    /\ \E created \in CreatedOrders :
        /\ msgs \in [MsgIds -> UNION {MsgRecords(created[m]) : m \in MsgIds}]
        /\ \A m \in MsgIds : msgs[m] \in MsgRecords(created[m])
        /\ msgs[OtherMsg] = OtherRecord(created[OtherMsg])
    /\ parts \in [MsgIds -> {1..n : n \in 0..MaxParts}]
    /\ \A m \in MsgIds : ~msgs[m].present => parts[m] = {}
    /\ parts[OtherMsg] = 1..MaxParts
    /\ partDir = [m \in MsgIds |-> parts[m] # {}]
    /\ \E place \in DocPlacements :
        /\ sessionPathExists = (place # "nodir")
        /\ docs = InitDocs(place,
                           SelectSeq([j \in 1..OtherMsg |-> j],
                                     LAMBDA m : msgs[m].present /\ m <= MaxMsgs),
                           <<OtherMsg>>)
    /\ backups = <<>>
    /\ pc = "idle"
    /\ \E t \in Targets : sid = t[1] /\ idx = t[2]
    /\ dry = FALSE
    /\ result = EmptyResult
    /\ messages_to_remove = <<>>
    /\ files_to_backup = <<>>
    /\ all_parts = <<>>
    /\ i = 0
    /\ runs = 0
    /\ failures = 0
    /\ store0 = Store
    /\ deleted = {}
    /\ attempted = {}
    /\ backupOk = FALSE
    /\ rewrite = "no"
    /\ prev = NoPrev
    /\ corrupted = <<>>
    /\ written = {}
    /\ crashAt = ""


InitScan ==
    /\ \E created \in CreatedOrders :
          /\ msgs \in [MsgIds -> UNION {ScanMsgRecords(created[m]) : m \in MsgIds}]
          /\ \A m \in MsgIds : msgs[m] \in ScanMsgRecords(created[m])
    /\ parts = [m \in MsgIds |-> {}]
    /\ partDir = [m \in MsgIds |-> FALSE]
    /\ \E place \in ScanPlacements :
          /\ sessionPathExists = (place # "nodir")
          /\ docs = InitDocs(place,
                             SelectSeq([j \in 1..OtherMsg |-> j],
                                       LAMBDA m : msgs[m].present /\ m <= MaxMsgs),
                             <<OtherMsg>>)
    /\ backups = <<>>
    /\ pc = "idle"
    /\ sid = "s1" /\ idx = NoIdx
    /\ dry = FALSE
    /\ result = EmptyResult
    /\ messages_to_remove = <<>>
    /\ files_to_backup = <<>>
    /\ all_parts = <<>>
    /\ i = 0
    /\ runs = 0
    /\ failures = 0
    /\ store0 = Store
    /\ deleted = {}
    /\ attempted = {}
    /\ backupOk = FALSE
    /\ rewrite = "no"
    /\ prev = NoPrev
    /\ corrupted = <<>>
    /\ written = {}
    /\ crashAt = ""

\* ------------------------------------------------------------- find_corrupted_messages
\* lines 53-114, from the first directory listing to the sorted list
Scan ==
    /\ pc \in {"idle", "scanned", "returned", "raised", "crashed"}
    /\ corrupted' = find_corrupted_messages
    /\ pc' = "scanned"
    /\ UNCHANGED <<world, locals, aux, written, crashAt>>

\* ------------------------------------------------------------- fix_session
\* an exception no handler catches ends the invocation: line 355 (backup_files)
\* and line 390 (update_session_after_repair) are outside any try
RaiseIn(step) == "raised"

\* mutant: the dry_run flag is not tested
AfterCollectIgnoringDry(nothing, d) == IF nothing THEN "returned" ELSE "backup"

\* mutant: the empty removal set is not tested
AfterCollectIgnoringEmpty(nothing, d) == IF d THEN "returned" ELSE "backup"

\* lines 316-318 and 350-352: the two early returns
AfterCollect(nothing, d) == IF nothing \/ d THEN "returned" ELSE "backup"

\* mutant: a real run reports every collected message, with or without an id
CollectReportingAll(d) ==
    /\ pc \in {"idle", "scanned", "returned", "raised", "crashed"}
    /\ runs < MaxRuns
    /\ LET msg_to_remove == find_message_to_remove(sid, idx)
           error_messages == find_error_messages(sid)
           nothing == msg_to_remove = NoMsg /\ error_messages = <<>>
           mtr == CollectMessages(msg_to_remove, error_messages)
           reported == Reported(mtr)
       IN  /\ messages_to_remove' = IF nothing THEN <<>> ELSE mtr
           /\ files_to_backup' = IF nothing THEN <<>> ELSE CollectFiles(reported)
           /\ all_parts' = IF nothing THEN <<>> ELSE CollectParts(reported)
           /\ result' = IF nothing
                        THEN [EmptyResult EXCEPT !.error = NothingToRepair]
                        ELSE [EmptyResult EXCEPT
                                 !.messages_removed = IF d THEN reported ELSE mtr,
                                 !.parts_removed = Len(CollectParts(reported)),
                                 !.success = d]
           /\ pc' = AfterCollect(nothing, d)
    /\ dry' = d
    /\ i' = 0
    /\ runs' = runs + 1
    /\ store0' = Store
    /\ deleted' = {}
    /\ attempted' = {}
    /\ backupOk' = FALSE
    /\ rewrite' = "no"
    /\ prev' = IF runs = 0 THEN NoPrev
               ELSE [valid |-> TRUE, dry |-> dry, pc |-> pc, result |-> result,
                     store0 |-> store0, deleted |-> deleted, crashAt |-> crashAt,
                     messages_to_remove |-> messages_to_remove,
                     attempted |-> attempted, failures |-> failures]
    /\ written' = {}
    /\ crashAt' = ""
    /\ UNCHANGED <<world, sid, idx, failures, corrupted>>

\* lines 302-352: locate, collect, and return at once on an empty removal set
\* or on a dry run
Collect(d) ==
    /\ pc \in {"idle", "scanned", "returned", "raised", "crashed"}
    /\ runs < MaxRuns
    /\ LET msg_to_remove == find_message_to_remove(sid, idx)
           error_messages == find_error_messages(sid)
           nothing == msg_to_remove = NoMsg /\ error_messages = <<>>
           mtr == CollectMessages(msg_to_remove, error_messages)
           reported == Reported(mtr)
       IN  /\ messages_to_remove' = IF nothing THEN <<>> ELSE mtr
           /\ files_to_backup' = IF nothing THEN <<>> ELSE CollectFiles(reported)
           /\ all_parts' = IF nothing THEN <<>> ELSE CollectParts(reported)
           /\ result' = IF nothing
                        THEN [EmptyResult EXCEPT !.error = NothingToRepair]
                        ELSE [EmptyResult EXCEPT
                                 !.messages_removed = reported,
                                 !.parts_removed = Len(CollectParts(reported)),
                                 !.success = d]
           /\ pc' = AfterCollect(nothing, d)
    /\ dry' = d
    /\ i' = 0
    /\ runs' = runs + 1
    /\ store0' = Store
    /\ deleted' = {}
    /\ attempted' = {}
    /\ backupOk' = FALSE
    /\ rewrite' = "no"
    /\ prev' = IF runs = 0 THEN NoPrev
               ELSE [valid |-> TRUE, dry |-> dry, pc |-> pc, result |-> result,
                     store0 |-> store0, deleted |-> deleted, crashAt |-> crashAt,
                     messages_to_remove |-> messages_to_remove,
                     attempted |-> attempted, failures |-> failures]
    /\ written' = {}
    /\ crashAt' = ""
    /\ UNCHANGED <<world, sid, idx, failures, corrupted>>

\* backup_files, lines 181-185: a fresh timestamped directory
BackupMkdir ==
    /\ pc = "backup"
    /\ backups' = Append(backups, {})
    /\ i' = 1
    /\ pc' = "copy"
    /\ UNCHANGED <<msgs, parts, partDir, sessionPathExists, docs>>
    /\ UNCHANGED <<sid, idx, dry, result, messages_to_remove, files_to_backup, all_parts>>
    /\ UNCHANGED aux
    /\ UNCHANGED extra

\* backup_files, lines 181-185: mkdir raises, nothing catches it
BackupMkdirFails ==
    /\ pc = "backup"
    /\ failures < MaxFail
    /\ failures' = failures + 1
    /\ pc' = RaiseIn("backup")
    /\ UNCHANGED <<world, locals>>
    /\ UNCHANGED <<runs, store0, deleted, attempted, backupOk, rewrite, prev>>
    /\ UNCHANGED extra

\* backup_files, lines 187-193: one file of the loop, copied if it exists
BackupCopy ==
    /\ pc = "copy"
    /\ i <= Len(files_to_backup)
    /\ LET f == files_to_backup[i]
       IN  backups' = IF Exists(f)
                      THEN [backups EXCEPT ![Len(backups)] =
                                @ \cup {[path |-> f, content |-> Content(f)]}]
                      ELSE backups
    /\ i' = i + 1
    /\ UNCHANGED <<msgs, parts, partDir, sessionPathExists, docs, pc>>
    /\ UNCHANGED <<sid, idx, dry, result, messages_to_remove, files_to_backup, all_parts>>
    /\ UNCHANGED aux
    /\ UNCHANGED extra

\* mutant: the copy error is swallowed and the loop goes on
BackupCopySwallowed ==
    /\ pc = "copy"
    /\ i <= Len(files_to_backup)
    /\ Exists(files_to_backup[i])
    /\ failures < MaxFail
    /\ failures' = failures + 1
    /\ i' = i + 1
    /\ UNCHANGED <<world, pc>>
    /\ UNCHANGED <<sid, idx, dry, result, messages_to_remove, files_to_backup, all_parts>>
    /\ UNCHANGED <<runs, store0, deleted, attempted, backupOk, rewrite, prev>>
    /\ UNCHANGED extra

\* shutil.copy2 raises: nothing catches it, the exception leaves fix_session
BackupCopyFails ==
    /\ pc = "copy"
    /\ i <= Len(files_to_backup)
    /\ Exists(files_to_backup[i])
    /\ failures < MaxFail
    /\ failures' = failures + 1
    /\ pc' = RaiseIn("backup")
    /\ UNCHANGED <<world, locals>>
    /\ UNCHANGED <<runs, store0, deleted, attempted, backupOk, rewrite, prev>>
    /\ UNCHANGED extra

\* lines 195 and 356: backup_files returns the directory
BackupReturn ==
    /\ pc = "copy"
    /\ i > Len(files_to_backup)
    /\ result' = [result EXCEPT !.backup_path = Len(backups)]
    /\ backupOk' = TRUE
    /\ pc' = "rm_msgs"
    /\ i' = 1
    /\ UNCHANGED <<world, sid, idx, dry, messages_to_remove, files_to_backup, all_parts>>
    /\ UNCHANGED <<runs, failures, store0, deleted, attempted, rewrite, prev>>
    /\ UNCHANGED extra

\* lines 359-363: msg_file.unlink() succeeds
UnlinkMessage ==
    /\ pc = "rm_msgs"
    /\ i <= Len(messages_to_remove)
    /\ LET m == messages_to_remove[i]
       IN  IF msgs[m].present
           THEN /\ msgs' = [msgs EXCEPT ![m].present = FALSE]
                /\ deleted' = deleted \cup {MsgPath(m)}
                /\ attempted' = attempted \cup {MsgPath(m)}
           ELSE UNCHANGED <<msgs, deleted, attempted>>
    /\ i' = i + 1
    /\ UNCHANGED <<parts, partDir, sessionPathExists, docs, backups, pc>>
    /\ UNCHANGED <<sid, idx, dry, result, messages_to_remove, files_to_backup, all_parts>>
    /\ UNCHANGED <<runs, failures, store0, backupOk, rewrite, prev>>
    /\ UNCHANGED extra

\* mutant: the unlink error is not caught
UnlinkMessageRaises ==
    /\ pc = "rm_msgs"
    /\ i <= Len(messages_to_remove)
    /\ msgs[messages_to_remove[i]].present
    /\ failures < MaxFail
    /\ failures' = failures + 1
    /\ attempted' = attempted \cup {MsgPath(messages_to_remove[i])}
    /\ pc' = "raised"
    /\ UNCHANGED <<world, locals>>
    /\ UNCHANGED <<runs, store0, deleted, backupOk, rewrite, prev>>
    /\ UNCHANGED extra

\* lines 364-366: msg_file.unlink() raises IOError, which is swallowed
UnlinkMessageFails ==
    /\ pc = "rm_msgs"
    /\ i <= Len(messages_to_remove)
    /\ msgs[messages_to_remove[i]].present
    /\ failures < MaxFail
    /\ failures' = failures + 1
    /\ attempted' = attempted \cup {MsgPath(messages_to_remove[i])}
    /\ i' = i + 1
    /\ UNCHANGED <<world, pc>>
    /\ UNCHANGED <<sid, idx, dry, result, messages_to_remove, files_to_backup, all_parts>>
    /\ UNCHANGED <<runs, store0, deleted, backupOk, rewrite, prev>>
    /\ UNCHANGED extra

MessagesDone ==
    /\ pc = "rm_msgs"
    /\ i > Len(messages_to_remove)
    /\ pc' = "rm_parts"
    /\ i' = 1
    /\ UNCHANGED <<world, sid, idx, dry, result, messages_to_remove, files_to_backup,
                   all_parts>>
    /\ UNCHANGED aux
    /\ UNCHANGED extra

\* lines 369-371: part_file.unlink() succeeds
UnlinkPart ==
    /\ pc = "rm_parts"
    /\ i <= Len(all_parts)
    /\ LET f == all_parts[i]
       IN  /\ parts' = [parts EXCEPT ![f.m] = @ \ {f.k}]
           /\ deleted' = IF Exists(f) THEN deleted \cup {f} ELSE deleted
           /\ attempted' = attempted \cup {f}
    /\ i' = i + 1
    /\ UNCHANGED <<msgs, partDir, sessionPathExists, docs, backups, pc>>
    /\ UNCHANGED <<sid, idx, dry, result, messages_to_remove, files_to_backup, all_parts>>
    /\ UNCHANGED <<runs, failures, store0, backupOk, rewrite, prev>>
    /\ UNCHANGED extra

\* lines 372-374: part_file.unlink() raises IOError, which is swallowed
UnlinkPartFails ==
    /\ pc = "rm_parts"
    /\ i <= Len(all_parts)
    /\ failures < MaxFail
    /\ failures' = failures + 1
    /\ attempted' = attempted \cup {all_parts[i]}
    /\ i' = i + 1
    /\ UNCHANGED <<world, pc>>
    /\ UNCHANGED <<sid, idx, dry, result, messages_to_remove, files_to_backup, all_parts>>
    /\ UNCHANGED <<runs, store0, deleted, backupOk, rewrite, prev>>
    /\ UNCHANGED extra

PartsDone ==
    /\ pc = "rm_parts"
    /\ i > Len(all_parts)
    /\ pc' = "rm_dirs"
    /\ i' = 1
    /\ UNCHANGED <<world, sid, idx, dry, result, messages_to_remove, files_to_backup,
                   all_parts>>
    /\ UNCHANGED aux
    /\ UNCHANGED extra

\* lines 377-385: parts_dir.rmdir() removes an empty directory and raises
\* OSError, swallowed, on one that still holds a file
RemoveDir ==
    /\ pc = "rm_dirs"
    /\ i <= Len(messages_to_remove)
    /\ LET m == messages_to_remove[i]
       IN  partDir' = IF RecId(m) # NoMsg /\ partDir[m] /\ parts[m] = {}
                      THEN [partDir EXCEPT ![m] = FALSE]
                      ELSE partDir
    /\ i' = i + 1
    /\ UNCHANGED <<msgs, parts, sessionPathExists, docs, backups, pc>>
    /\ UNCHANGED <<sid, idx, dry, result, messages_to_remove, files_to_backup, all_parts>>
    /\ UNCHANGED aux
    /\ UNCHANGED extra

\* lines 383-385: parts_dir.rmdir() raises OSError on an empty directory (a
\* directory it may not remove), which is swallowed
RemoveDirFails ==
    /\ pc = "rm_dirs"
    /\ i <= Len(messages_to_remove)
    /\ LET m == messages_to_remove[i]
       IN  RecId(m) # NoMsg /\ partDir[m] /\ parts[m] = {}
    /\ failures < MaxFail
    /\ failures' = failures + 1
    /\ i' = i + 1
    /\ UNCHANGED <<world, pc>>
    /\ UNCHANGED <<sid, idx, dry, result, messages_to_remove, files_to_backup, all_parts>>
    /\ UNCHANGED <<runs, store0, deleted, attempted, backupOk, rewrite, prev>>
    /\ UNCHANGED extra

DirsDone ==
    /\ pc = "rm_dirs"
    /\ i > Len(messages_to_remove)
    /\ pc' = "update"
    /\ i' = 0
    /\ UNCHANGED <<world, sid, idx, dry, result, messages_to_remove, files_to_backup,
                   all_parts>>
    /\ UNCHANGED aux
    /\ UNCHANGED extra

\* lines 388-390 with update_session_after_repair: every write succeeds
UpdateSession ==
    /\ pc = "update"
    /\ result.messages_removed # <<>>
    /\ sessionPathExists
    /\ docs' = update_session_after_repair(1, docs, sid, Range(result.messages_removed), "")
    /\ written' = WrittenProject(docs, sid, Range(result.messages_removed), "")
    /\ rewrite' = "done"
    /\ pc' = "finish"
    /\ UNCHANGED <<msgs, parts, partDir, sessionPathExists, backups, locals>>
    /\ UNCHANGED <<runs, failures, store0, deleted, attempted, backupOk, prev>>
    /\ UNCHANGED <<corrupted, crashAt>>

\* lines 280-285: the write of a document raises IOError, which is swallowed
UpdateSessionWriteFails ==
    /\ pc = "update"
    /\ result.messages_removed # <<>>
    /\ sessionPathExists
    /\ failures < MaxFail
    /\ \E p \in WriteTargets(docs, sid, Range(result.messages_removed)) :
        /\ docs' = update_session_after_repair(1, docs, sid,
                                               Range(result.messages_removed), p)
        /\ written' = WrittenProject(docs, sid, Range(result.messages_removed), p)
    /\ failures' = failures + 1
    /\ rewrite' = "write_failed"
    /\ pc' = "finish"
    /\ UNCHANGED <<msgs, parts, partDir, sessionPathExists, backups, locals>>
    /\ UNCHANGED <<runs, store0, deleted, attempted, backupOk, prev>>
    /\ UNCHANGED <<corrupted, crashAt>>

\* line 238: SESSION_PATH.iterdir() raises FileNotFoundError outside any try
UpdateSessionRaises ==
    /\ pc = "update"
    /\ result.messages_removed # <<>>
    /\ ~sessionPathExists
    /\ rewrite' = "raised"
    /\ pc' = RaiseIn("update")
    /\ UNCHANGED <<world, locals>>
    /\ UNCHANGED <<runs, failures, store0, deleted, attempted, backupOk, prev>>
    /\ UNCHANGED extra

\* line 389: no reported id, no rewrite
SkipUpdate ==
    /\ pc = "update"
    /\ result.messages_removed = <<>>
    /\ pc' = "finish"
    /\ UNCHANGED <<world, locals, aux>>
    /\ UNCHANGED extra

\* lines 392-393
Return ==
    /\ pc = "finish"
    /\ result' = [result EXCEPT !.success = TRUE]
    /\ pc' = "returned"
    /\ UNCHANGED <<world, sid, idx, dry, messages_to_remove, files_to_backup, all_parts, i>>
    /\ UNCHANGED aux
    /\ UNCHANGED extra

\* the process is killed (a signal, a power loss) at one of the two phase
\* boundaries of a real run: after backup_files has returned and before the
\* first unlink, or after the deletion loops and before the metadata rewrite;
\* nothing after the step it had reached is executed
Crash ==
    /\ \/ pc = "rm_msgs" /\ attempted = {}
       \/ pc = "update"
    /\ failures < MaxFail
    /\ failures' = failures + 1
    /\ crashAt' = pc
    /\ pc' = "crashed"
    /\ UNCHANGED <<world, locals>>
    /\ UNCHANGED <<runs, store0, deleted, attempted, backupOk, rewrite, prev>>
    /\ UNCHANGED <<corrupted, written>>

Next ==
    \/ \E d \in BOOLEAN : Collect(d)
    \/ BackupMkdir
    \/ BackupMkdirFails
    \/ BackupCopy
    \/ BackupCopyFails
    \/ BackupReturn
    \/ UnlinkMessage
    \/ UnlinkMessageFails
    \/ MessagesDone
    \/ UnlinkPart
    \/ UnlinkPartFails
    \/ PartsDone
    \/ RemoveDir
    \/ RemoveDirFails
    \/ DirsDone
    \/ UpdateSession
    \/ UpdateSessionWriteFails
    \/ UpdateSessionRaises
    \/ SkipUpdate
    \/ Return
    \/ Crash

Spec == Init /\ [][Next]_vars

\* the locator alone: every invocation stops after lines 302-352
NextLocate == \E d \in BOOLEAN : Collect(d)

SpecLocate == Init /\ [][NextLocate]_vars

\* the scanner alone, on the stores of InitScan
NextScan == Scan

SpecScan == InitScan /\ [][NextScan]_vars

\* one repair, then the scanner again (fix_command called a second time)
FirstRepair(d) == runs = 0 /\ Collect(d)
Rescan == runs > 0 /\ Scan

NextRescan ==
    \/ \E d \in BOOLEAN : FirstRepair(d)
    \/ BackupMkdir
    \/ BackupMkdirFails
    \/ BackupCopy
    \/ BackupCopyFails
    \/ BackupReturn
    \/ UnlinkMessage
    \/ UnlinkMessageFails
    \/ MessagesDone
    \/ UnlinkPart
    \/ UnlinkPartFails
    \/ PartsDone
    \/ RemoveDir
    \/ RemoveDirFails
    \/ DirsDone
    \/ UpdateSession
    \/ UpdateSessionWriteFails
    \/ UpdateSessionRaises
    \/ SkipUpdate
    \/ Return
    \/ Crash
    \/ Rescan

SpecRescan == Init /\ [][NextRescan]_vars


\* ------------------------------------------------------------- vocabulary of the claims
Real == runs > 0 /\ ~dry
RealReturned == Real /\ pc = "returned" /\ result.success
Failed == attempted \ deleted          \* files whose unlink raised

Exists0(f) == IF f.kind = "message" THEN store0.msgs[f.m].present
              ELSE f.k \in store0.parts[f.m]
Content0(f) == IF f.kind = "message" THEN store0.msgs[f.m] ELSE PartContent(f.m, f.k)

\* the files the deletion loops of lines 359-374 have to call unlink on
ToDelete == {MsgPath(m) : m \in {x \in Range(messages_to_remove) : store0.msgs[x].present}}
            \cup Range(all_parts)

\* f lies, with the content it had when the invocation started, in directory b
\* of the backup sink
CopiedIn(b, f) ==
    /\ b \in 1..Len(backups)
    /\ [path |-> f, content |-> Content0(f)] \in backups[b]

\* the message ids a metadata document references
RefsIn(doc) ==
    IF doc.exists /\ doc.readable
    THEN (IF doc.hasOrder THEN Range(doc.order) ELSE {})
         \cup (IF doc.hasMessages THEN doc.messages ELSE {})
         \cup (IF doc.hasConv
               THEN {HistoryRef(doc.history[j]) : j \in 1..Len(doc.history)} \ {NoMsg}
               ELSE {})
    ELSE {}

\* the conversation holds, when the invocation starts, a readable message that
\* is system-originated or carries the ErrorSignature
RemovalSetNonEmpty0 ==
    \E m \in MsgIds :
        /\ SessionOf(m) = sid
        /\ store0.msgs[m].present /\ store0.msgs[m].readable
        /\ (store0.msgs[m].role = "assistant" \/ HasSignature(store0.msgs[m]))

\* ------------------------------------------------------------- claims

C2_BackupComplete ==
    Real => \A f \in deleted : backupOk /\ CopiedIn(result.backup_path, f)

C4_Idempotent ==
    (/\ prev.valid /\ ~prev.dry /\ prev.pc = "returned" /\ prev.result.success
     /\ prev.result.messages_removed # <<>>
     /\ \A m \in MsgIds : msgs[m].hasId
     /\ ~dry /\ failures = 0) =>
        /\ pc = "returned"
        /\ ~result.success
        /\ result.messages_removed = <<>>
        /\ deleted = {}

\* C5 as stated: a dry run returns success with no backup location and leaves
\* the store and the backup sink as they were.
C5_DryRunSucceeds ==
    (runs > 0 /\ dry) =>
        /\ pc = "returned"
        /\ result.success
        /\ result.backup_path = 0
        /\ Store = store0

\* C5 amended: a dry run returns with no backup location and leaves the store
\* and the backup sink as they were; it returns success exactly when the
\* removal set is not empty, and NothingToRepair otherwise.
C5_DryRunPure ==
    (runs > 0 /\ dry) =>
        /\ pc = "returned"
        /\ result.success = RemovalSetNonEmpty0
        /\ ~result.success => result.error = NothingToRepair
        /\ result.backup_path = 0
        /\ Store = store0

C5_Witness ==
    /\ runs > 0 /\ dry /\ pc = "returned"
    /\ result.success
    /\ result.parts_removed > 0
    /\ \E p \in ProjectSet : RefsIn(docs[p][sid]) # {}

\* C6: a dry run and a real run started from the identical store return the
\* same removed_message_ids, in the same order, and the same removed_part_count:
\* the result of the real run carries them from its first step to its return.
C6_DryRealAgree ==
    (/\ prev.valid /\ prev.dry /\ prev.pc = "returned"
     /\ ~dry /\ store0 = prev.store0) =>
        /\ result.messages_removed = prev.result.messages_removed
        /\ result.parts_removed = prev.result.parts_removed

C6_Witness ==
    /\ prev.valid /\ prev.dry /\ prev.pc = "returned"
    /\ ~dry /\ pc = "returned" /\ store0 = prev.store0
    /\ result.success
    /\ Len(result.messages_removed) >= 2
    /\ result.parts_removed > 0
    /\ Failed # {}

\* C7: whatever a run of repair on conversation sid does, every message file,
\* part file and parts directory of a message outside the removal set, and of
\* every other conversation, is as it was, and so is every metadata document
\* of another conversation; the removal set holds messages of conversation sid
\* only.
C7_FrameOutside ==
    runs > 0 =>
        /\ \A m \in Range(messages_to_remove) : SessionOf(m) = sid
        /\ \A m \in MsgIds :
              (m \notin Range(messages_to_remove) \/ SessionOf(m) # sid) =>
                  /\ msgs[m] = store0.msgs[m]
                  /\ parts[m] = store0.parts[m]
                  /\ partDir[m] = store0.partDir[m]
        /\ \A p \in ProjectSet : \A s \in Sessions \ {sid} :
              docs[p][s] = store0.docs[p][s]

C7_Witness ==
    /\ RealReturned
    /\ deleted # {}
    /\ rewrite = "done"
    /\ \E m \in MsgIds :
          /\ SessionOf(m) = sid
          /\ m \notin Range(messages_to_remove)
          /\ msgs[m].present
          /\ parts[m] # {}

\* C8: when the conversation holds no message to remove (no system-originated
\* message, none with the ErrorSignature), repair returns success = false with
\* an error, no removed id and no backup location, and changes nothing.
C8_NothingToRepair ==
    (runs > 0 /\ ~RemovalSetNonEmpty0) =>
        /\ pc = "returned"
        /\ ~result.success
        /\ result.error # NoError
        /\ result.messages_removed = <<>>
        /\ result.backup_path = 0
        /\ Store = store0

C8_Witness ==
    /\ runs > 0 /\ ~dry /\ ~RemovalSetNonEmpty0
    /\ pc = "returned"
    /\ \E m \in MsgIds : SessionOf(m) = sid /\ msgs[m].present /\ parts[m] # {}

\* C9: a real run whose snapshot failed ends by returning a RepairResult with
\* success = false and an error, and has deleted or rewritten nothing.
C9_BackupFailureSurfaced ==
    (Real /\ pc \in {"returned", "raised"} /\ messages_to_remove # <<>> /\ ~backupOk) =>
        /\ pc = "returned"
        /\ ~result.success
        /\ result.error # NoError
        /\ deleted = {}
        /\ msgs = store0.msgs /\ parts = store0.parts /\ docs = store0.docs

C11_FailuresRecorded ==
    (RealReturned /\ Failed # {} /\ \A m \in MsgIds : store0.msgs[m].hasId) =>
        result # [success |-> TRUE,
                  messages_removed |-> Reported(messages_to_remove),
                  parts_removed |-> Len(all_parts),
                  backup_path |-> Len(backups),
                  error |-> NoError]

\* C12: in a real run every deleted message file is the file of a reported
\* id, every reported id had unlink called on its file once the run has
\* returned, and a backup location is set as soon as a file is deleted.
C12_DeletedAreReported ==
    Real =>
        /\ {m \in MsgIds : MsgPath(m) \in deleted} \subseteq Range(result.messages_removed)
        /\ (pc = "returned" /\ result.success) =>
              \A m \in Range(result.messages_removed) : MsgPath(m) \in attempted
        /\ deleted # {} => result.backup_path # 0

\* the reference translation of C13: A is the set of the conversation's
\* readable system-originated messages; its k-th member by creation time
\* (k from 0) is the one with exactly k members created before it
Assistants(s) ==
    {m \in MsgIds : /\ SessionOf(m) = s
                    /\ msgs[m].present /\ msgs[m].readable
                    /\ msgs[m].role = "assistant"}
CreatedBefore(a, b) ==
    \/ msgs[a].created < msgs[b].created
    \/ msgs[a].created = msgs[b].created /\ a < b
NthAssistant(s, k) ==
    CHOOSE a \in Assistants(s) :
        Cardinality({b \in Assistants(s) : CreatedBefore(b, a)}) = k
LocateReference(s, n) ==
    IF n # NoIdx /\ n > 0 /\ (n - 1) \div 2 < Cardinality(Assistants(s))
    THEN NthAssistant(s, (n - 1) \div 2)
    ELSE IF Assistants(s) # {} THEN NthAssistant(s, 0)
    ELSE NoMsg

\* C13: for every conversation and every content position N (or none),
\* find_message_to_remove returns the reference translation: the
\* ((N-1)//2)-th system-originated message by creation time when N > 0 and
\* that ordinal exists, otherwise the earliest one, none when there is none;
\* the message returned is never human-originated.
C13_LocatePrimary ==
    \A s \in Sessions : \A n \in Idxs :
        /\ find_message_to_remove(s, n) = LocateReference(s, n)
        /\ find_message_to_remove(s, n) # NoMsg =>
              msgs[find_message_to_remove(s, n)].role = "assistant"

C13_Witness ==
    /\ runs > 0 /\ idx # NoIdx /\ (idx - 1) \div 2 = 1
    /\ messages_to_remove # <<>> /\ messages_to_remove[1] = 1
    /\ store0.msgs[2].present /\ store0.msgs[2].readable
    /\ store0.msgs[2].role = "assistant"
    /\ store0.msgs[2].created < store0.msgs[1].created
    /\ store0.msgs[1].role = "assistant"

\* a message file the scanner has to report: it parses and its error text
\* holds the three markers
Corrupt(m) == msgs[m].present /\ msgs[m].readable /\ Markers \subseteq msgs[m].err
RecordsOf(m) == {j \in 1..Len(corrupted) : corrupted[j].message_id = m}

\* C14: the list the scanner returns holds exactly one record for each
\* readable message file whose error text contains the three markers, and no
\* record for any other message file.
C14_ScanExact ==
    pc = "scanned" =>
        \A m \in MsgIds : Cardinality(RecordsOf(m)) = (IF Corrupt(m) THEN 1 ELSE 0)

\* no candidate directory holds a readable document of conversation s
NoReadableDoc(s) ==
    \/ ~sessionPathExists
    \/ \A p \in ProjectSet : ~(docs[p][s].exists /\ docs[p][s].readable)

\* C15: the scan returns whatever the input: an unreadable message file is
\* skipped while every other matching message is reported, and a conversation
\* without a readable metadata document (the metadata collection may be
\* absent altogether) has its records reported with the title "Unknown".
C15_ScanRobust ==
    pc = "scanned" =>
        \A m \in MsgIds :
            Corrupt(m) =>
                \E j \in RecordsOf(m) :
                    NoReadableDoc(SessionOf(m)) => corrupted[j].session_title = "Unknown"

\* the running invocation retries a real run that was killed at step `at`
RetryAfterCrash(at) ==
    /\ Real
    /\ prev.valid /\ ~prev.dry
    /\ prev.pc = "crashed" /\ prev.crashAt = at
    /\ failures = prev.failures

\* C16: when a real run is killed after backup_files has returned and before
\* the first unlink, the message store, the part store and the metadata are
\* as they were when it started, the backup directory holds every file of the
\* removal set, and the retry computes the same removal set and returns
\* success.  Stated for stores in which SESSION_PATH exists and for a retry
\* that meets no failure.
C16_CrashBeforeDeletion ==
    /\ (Real /\ pc = "crashed" /\ crashAt = "rm_msgs" /\ attempted = {}) =>
          /\ msgs = store0.msgs /\ parts = store0.parts
          /\ partDir = store0.partDir /\ docs = store0.docs
          /\ \A f \in ToDelete : CopiedIn(Len(backups), f)
    /\ (RetryAfterCrash("rm_msgs") /\ prev.attempted = {} /\ sessionPathExists) =>
          /\ messages_to_remove = prev.messages_to_remove
          /\ pc # "raised"
          /\ pc = "returned" => result.success

\* C17: when a real run is killed after the deletions, all of which
\* succeeded, and before the metadata rewrite, the next real run finds nothing
\* to remove and deletes no file.  Stated for stores in which every message
\* record has an id.
C17_CrashAfterDeletion ==
    (/\ RetryAfterCrash("update")
     /\ prev.deleted # {} /\ prev.attempted = prev.deleted
     /\ \A m \in MsgIds : prev.store0.msgs[m].hasId) =>
        /\ messages_to_remove = <<>>
        /\ pc = "returned"
        /\ deleted = {}

\* the message files of the running invocation's conversation that parse and
\* carry the ErrorSignature
ErrorRecords == {m \in MsgIds : SessionOf(m) = sid /\ Corrupt(m)}

\* C18: the removal set a run collects is the primary target together with
\* every message of the conversation that carries the ErrorSignature, each
\* once, the primary first and the error records after it in the order of the
\* directory listing.  Read in the states in which the run has not changed the
\* store yet.
C18_RemovalSet ==
    (runs > 0 /\ RemovalSetNonEmpty0 /\ msgs = store0.msgs) =>
        LET primary == LocateReference(sid, idx)
            mtr == messages_to_remove
        IN  /\ Range(mtr) = ({primary} \ {NoMsg}) \cup ErrorRecords
            /\ \A j, k \in 1..Len(mtr) : j # k => mtr[j] # mtr[k]
            /\ primary # NoMsg => mtr[1] = primary
            /\ \A j, k \in 1..Len(mtr) :
                  (j < k /\ mtr[j] # primary /\ mtr[k] # primary) => mtr[j] < mtr[k]

\* C19: the metadata rewrite writes a document back only when one of its
\* three structures changed: a document the run wrote differs from what it was
\* when the run started, and no document is written when none references a
\* removed id.
C19_WriteOnlyIfChanged ==
    Real =>
        /\ \A p \in written : docs[p][sid] # store0.docs[p][sid]
        /\ (\A p \in ProjectSet :
               RefsIn(store0.docs[p][sid]) \cap Range(result.messages_removed) = {})
              => written = {}

\* new holds, in their order in old, exactly the entries of old that are not
\* dropped: the j-th kept entry of old is the j-th entry of new
KeptInOrder(old, new, Dropped(_)) ==
    LET keep == {j \in 1..Len(old) : ~Dropped(old[j])}
    IN  /\ Len(new) = Cardinality(keep)
        /\ \A j \in keep : new[Cardinality({k \in keep : k <= j})] = old[j]

\* C20: the metadata rewrite removes only references to removed ids: in the
\* document of the repaired conversation the index entries, the lookup keys
\* and the history entries that do not reference a removed id stay, in their
\* original order; history entries that are not per-message stay; every other
\* field of the document is unchanged.
C20_RewriteFrame ==
    Real =>
        \A p \in ProjectSet :
            LET old == store0.docs[p][sid]
                new == docs[p][sid]
                removed == Range(result.messages_removed)
                DroppedId(m) == m \in removed
                DroppedEntry(e) == e.kind = "msg" /\ e.mid \in removed
            IN  \/ new = old
                \/ /\ new.exists = old.exists /\ new.readable = old.readable
                   /\ new.hasTitle = old.hasTitle
                   /\ new.hasOrder = old.hasOrder
                   /\ new.hasMessages = old.hasMessages
                   /\ new.hasConv = old.hasConv
                   /\ IF old.hasOrder THEN KeptInOrder(old.order, new.order, DroppedId)
                      ELSE new.order = old.order
                   /\ IF old.hasMessages THEN new.messages = old.messages \ removed
                      ELSE new.messages = old.messages
                   /\ IF old.hasConv
                      THEN KeptInOrder(old.history, new.history, DroppedEntry)
                      ELSE new.history = old.history

C20_Witness ==
    /\ RealReturned
    /\ written # {}
    /\ \E p \in written :
          /\ docs[p][sid] # store0.docs[p][sid]
          /\ docs[p][sid].order # <<>>
          /\ Len(docs[p][sid].history) = 3
          /\ Len(store0.docs[p][sid].history) = 4

\* C21: when a real run has returned, for every message of its removal set:
\* no part file of the message is left when its message file was deleted, and
\* every part file it had is still there when its message file is still in the
\* store, whichever unlink calls failed.  Stated for stores in which every
\* message record has an id.
C21_PartOwnership ==
    (Real /\ pc = "returned" /\ \A m \in MsgIds : store0.msgs[m].hasId) =>
        \A m \in Range(messages_to_remove) :
            /\ MsgPath(m) \in deleted => parts[m] = {}
            /\ msgs[m].present => parts[m] = store0.parts[m]

\* C22: after a real run of fix_session that returned success and in which
\* every unlink succeeded, the next scan returns no record of the repaired
\* conversation.
C22_RescanClean ==
    (pc = "scanned" /\ Real /\ result.success /\ Failed = {}) =>
        \A j \in 1..Len(corrupted) : corrupted[j].session_id # sid

====
